---- MODULE Spec2Model ----
(***************************************************************************)
(* A model of the Angular project generator of this repository: the four   *)
(* end-to-end generation flows                                              *)
(*   "direct"  createproj.ts  generateAngularProjectWithTSMorph            *)
(*   "routing" createproj.ts  generateAngularProjectWithRouting            *)
(*   "morph"   unnamed/part_001 generateAngularProjectWithTSMorph          *)
(*   "cli"     spec.json (l.115) generateAngularProjectWithTSMorph         *)
(* and the pure generators they call.                                       *)
(*                                                                          *)
(* Text is modelled structurally.  A name is a sequence of one-character   *)
(* strings, so that case conversion is computed and not assumed; a piece of *)
(* generated text is a record or a tuple of its parts.  An optional JSON    *)
(* attribute is <<>> when absent and <<v>> when present.                    *)
(***************************************************************************)
EXTENDS Integers, Sequences, FiniteSets, TLC

VARIABLES
  input,          \* what main() hands to the flow: variant, spec, useBootstrap, columnLayout
  pc,             \* position of the running flow
  idx,            \* index of the component the loop is at
  cwd,            \* process.cwd(): number of projectName segments below the start directory
  fs,             \* the disk: path -> content, for the files the flows write
  project,        \* ts-morph Project: source files created and not yet saved
  artifacts,      \* path -> content written by the current run
  log,            \* events of the current run: external invocations, writes, phases
  run,            \* number of the current run in this process
  prevArtifacts,  \* artifacts of the previous run in this process
  field,          \* the field handed to the per-field generators
  out             \* what the last per-field generator returned

vars == <<input, pc, idx, cwd, fs, project, artifacts, log, run, prevArtifacts, field, out>>

runVars == <<input, pc, idx, cwd, fs, project, artifacts, log, run, prevArtifacts>>

fieldVars == <<field, out>>

----------------------------------------------------------------------------
(* Bounds of the model.                                                    *)

MaxComponents == 2

MaxOptions == 2

MaxRuns == 2

MaxWordLen == 2

----------------------------------------------------------------------------
(* Optional attributes and JavaScript truthiness.                          *)

None == <<>>

Some(v) == <<v>>

\* `x ? ... : ...` on an optional boolean: undefined and false are falsy
TruthyBool(o) == IF o = <<>> THEN FALSE ELSE o[1]

\* on an optional number: undefined and 0 are falsy
TruthyNum(o) == IF o = <<>> THEN FALSE ELSE o[1] # 0

\* on an optional string: undefined and '' are falsy
TruthyStr(o) == IF o = <<>> THEN FALSE ELSE o[1] # ""

----------------------------------------------------------------------------
(* Identifier derivation.                                                  *)

\* a character is a one-letter string; "U+00DF" stands for the one letter
\* LATIN SMALL LETTER SHARP S, whose uppercase mapping is the two letters SS

\* String.prototype.toUpperCase on one character: a string
toUpperCaseChar(c) ==
  CASE c = "a" -> <<"A">>
    [] c = "b" -> <<"B">>
    [] c = "s" -> <<"S">>
    [] c = "U+00DF" -> <<"S", "S">>
    [] OTHER -> <<c>>

toLowerCaseChar(c) ==
  CASE c = "A" -> "a"
    [] c = "B" -> "b"
    [] c = "S" -> "s"
    [] OTHER -> c

\* String.prototype.toLowerCase
toLowerCase(s) == [i \in 1..Len(s) |-> toLowerCaseChar(s[i])]

\* str.charAt(0).toUpperCase() + str.slice(1); charAt(0) of '' is ''
capitalize(str) ==
  IF str = <<>> THEN <<>> ELSE toUpperCaseChar(Head(str)) \o Tail(str)

\* text.split(' '): the words between single spaces, empty words included
RECURSIVE split(_)
split(text) ==
  IF \A i \in 1..Len(text) : text[i] # " "
  THEN <<text>>
  ELSE LET k == CHOOSE i \in 1..Len(text) :
                   text[i] = " " /\ \A j \in 1..(i - 1) : text[j] # " "
       IN <<SubSeq(text, 1, k - 1)>> \o split(SubSeq(text, k + 1, Len(text)))

\* words.join(' ')
RECURSIVE join(_)
join(words) ==
  IF words = <<>> THEN <<>>
  ELSE IF Len(words) = 1 THEN words[1]
  ELSE words[1] \o <<" ">> \o join(Tail(words))

\* word.charAt(0).toUpperCase() + word.slice(1).toLowerCase()
titleWord(word) ==
  IF word = <<>> THEN <<>>
  ELSE toUpperCaseChar(Head(word)) \o toLowerCase(Tail(word))

toTitleCase(text) ==
  LET words == split(text)
  IN join([i \in 1..Len(words) |-> titleWord(words[i])])

----------------------------------------------------------------------------
(* Fields.                                                                 *)

FieldTypes ==
  {"textbox", "textarea", "dropdown", "checkbox", "checkboxlist",
   "radiobutton", "radiobuttonlist"}

\* field types of the input: the seven the switch knows and one it does not
\* ("string" is the type of the example's field `description`)
InputTypes == FieldTypes \cup {"string"}

FieldNames == {<<"a", "b">>, <<"a", "B", " ", "b">>}

OptionValues == <<"USA", "Canada", "India">>

\* options: absent, or the first n declared values
OptionLists ==
  {None} \cup {Some(SubSeq(OptionValues, 1, n)) : n \in 0..MaxOptions}

Patterns == {"^[a-z]+$"}

\* the structured bundle `validations` (defaultValue is read by no generator)
Bundles ==
  [required : {None, Some(TRUE), Some(FALSE)},
   minLength : {None, Some(0), Some(3)},
   maxLength : {None, Some(0), Some(10)},
   regex : {None} \cup {Some(p) : p \in Patterns},
   range : {None, Some(<<18, 100>>)}]

\* a bundle that carries only `required`
RequiredBundles ==
  {b \in Bundles : b.minLength = None /\ b.maxLength = None
                   /\ b.regex = None /\ b.range = None}

Field(n, t, r, x, o, m, v) ==
  [name |-> n, type |-> t, required |-> r, regex |-> x, options |-> o,
   validationMessage |-> m, validations |-> v]

\* fields that exercise the validation compiler: every bundle, every flat pair
CompileFields ==
  {Field(<<"a", "b">>, "textbox", r, x, None, None, v) :
     r \in {None, Some(TRUE), Some(FALSE)},
     x \in {None} \cup {Some(p) : p \in Patterns},
     v \in {None} \cup {Some(b) : b \in Bundles}}

\* fields that exercise the renderers: every type, flag, pattern, option list
RenderFields ==
  {Field(n, t, r, x, o, m, v) :
     n \in FieldNames, t \in InputTypes,
     r \in {None, Some(TRUE), Some(FALSE)},
     x \in {None, Some("")} \cup {Some(p) : p \in Patterns},
     o \in OptionLists,
     m \in {None, Some("Please enter a valid value.")},
     v \in {None} \cup {Some(b) : b \in RequiredBundles}}

Fields == CompileFields \cup RenderFields

----------------------------------------------------------------------------
(* Validation rule compiler (unnamed/part_001).                            *)

\* the strings pushed on `validations` for one field, each the sequence of
\* validator calls it spells; the range push spells two calls in one string
validationPushes(f) ==
  LET v == f.validations
      has == v # None
  IN  (IF has /\ TruthyBool(v[1].required) THEN << <<<<"required">>>> >> ELSE <<>>)
      \o (IF has /\ TruthyNum(v[1].minLength)
          THEN << <<<<"minLength", v[1].minLength[1]>>>> >> ELSE <<>>)
      \o (IF has /\ TruthyNum(v[1].maxLength)
          THEN << <<<<"maxLength", v[1].maxLength[1]>>>> >> ELSE <<>>)
      \o (IF has /\ TruthyStr(v[1].regex)
          THEN << <<<<"pattern", v[1].regex[1]>>>> >> ELSE <<>>)
      \o (IF has /\ v[1].range # None
          THEN << << <<"min", v[1].range[1][1]>>, <<"max", v[1].range[1][2]>> >> >>
          ELSE <<>>)

\* validations.join(', '): the validator calls of the array literal, in order
RECURSIVE joinCalls(_)
joinCalls(pushes) ==
  IF pushes = <<>> THEN <<>> ELSE Head(pushes) \o joinCalls(Tail(pushes))

\* `${field.name}: [null, [${validations.join(', ')}]]`
fieldValidationRule(f) ==
  [name |-> f.name, validators |-> joinCalls(validationPushes(f))]

generateValidationRules(component) ==
  [i \in 1..Len(component.fields) |-> fieldValidationRule(component.fields[i])]

----------------------------------------------------------------------------
(* Field markup (createproj.ts; the copy in spec.json is the same code).   *)

optionsOf(f) == IF f.options = None THEN <<>> ELSE f.options[1]

requiredMarkerOf(f) == IF TruthyBool(f.required) THEN " *" ELSE ""

patternAttr(f) == IF TruthyStr(f.regex) THEN Some(f.regex[1]) ELSE None

\* validationMessage || `${name} format is invalid`
patternMessage(f) ==
  IF TruthyStr(f.validationMessage) THEN <<f.validationMessage[1]>>
  ELSE f.name \o <<" format is invalid">>

optionItems(f) ==
  [i \in 1..Len(optionsOf(f)) |-> [value |-> optionsOf(f)[i], text |-> optionsOf(f)[i]]]

\* case 'textbox' and default: the two arms are the same text
textboxHTML(f, errorMessage) ==
  [label |-> [for |-> Some(f.name), text |-> toTitleCase(f.name),
              marker |-> requiredMarkerOf(f)],
   control |-> [tag |-> "input", type |-> "text", id |-> Some(f.name),
                name |-> f.name, required |-> TruthyBool(f.required),
                pattern |-> patternAttr(f), items |-> <<>>],
   errors |-> << <<"required", errorMessage>> >>
              \o (IF TruthyStr(f.regex)
                  THEN << <<"pattern", patternMessage(f)>> >> ELSE <<>>)]

textareaHTML(f, errorMessage) ==
  [label |-> [for |-> Some(f.name), text |-> toTitleCase(f.name),
              marker |-> requiredMarkerOf(f)],
   control |-> [tag |-> "textarea", type |-> "", id |-> Some(f.name),
                name |-> f.name, required |-> TruthyBool(f.required),
                pattern |-> None, items |-> <<>>],
   errors |-> << <<"required", errorMessage>> >>]

\* as dropdownHTML, without the blank first <option>
dropdownHTMLNoBlank(f, errorMessage) ==
  [label |-> [for |-> Some(f.name), text |-> toTitleCase(f.name),
              marker |-> requiredMarkerOf(f)],
   control |-> [tag |-> "select", type |-> "", id |-> Some(f.name),
                name |-> f.name, required |-> TruthyBool(f.required),
                pattern |-> None, items |-> optionItems(f)],
   errors |-> << <<"required", errorMessage>> >>]

dropdownHTML(f, errorMessage) ==
  [label |-> [for |-> Some(f.name), text |-> toTitleCase(f.name),
              marker |-> requiredMarkerOf(f)],
   control |-> [tag |-> "select", type |-> "", id |-> Some(f.name),
                name |-> f.name, required |-> TruthyBool(f.required),
                pattern |-> None,
                items |-> <<[value |-> "", text |-> "-- Select --"]>> \o optionItems(f)],
   errors |-> << <<"required", errorMessage>> >>]

\* case 'checkbox' and case 'radiobutton': the label wraps the single input
toggleHTML(f, inputType) ==
  [label |-> [for |-> None, text |-> toTitleCase(f.name), marker |-> ""],
   control |-> [tag |-> "input", type |-> inputType, id |-> Some(f.name),
                name |-> f.name, required |-> FALSE, pattern |-> None,
                items |-> <<>>],
   errors |-> <<>>]

\* as toggleItems, with the input of each option named after the option
toggleItemsNamedByOption(f, inputType) ==
  [i \in 1..Len(optionsOf(f)) |->
     [type |-> inputType, name |-> <<optionsOf(f)[i]>>,
      value |-> optionsOf(f)[i], text |-> optionsOf(f)[i]]]

\* options.map(option => `<label><input type=... name="${name}" value="${option}"/> ${option}</label>`)
toggleItems(f, inputType) ==
  [i \in 1..Len(optionsOf(f)) |->
     [type |-> inputType, name |-> f.name,
      value |-> optionsOf(f)[i], text |-> optionsOf(f)[i]]]

\* case 'checkboxlist' and case 'radiobuttonlist': one input per option
toggleListHTML(f, inputType, errors) ==
  [label |-> [for |-> None, text |-> toTitleCase(f.name),
              marker |-> requiredMarkerOf(f)],
   control |-> [tag |-> "div", type |-> inputType, id |-> None,
                name |-> f.name, required |-> FALSE, pattern |-> None,
                items |-> toggleItems(f, inputType)],
   errors |-> errors]

\* as controlHTML, with the required-error block of 'radiobuttonlist' copied
\* into 'checkboxlist' and the pattern-error block of 'textbox' missing from default
controlHTMLCopied(f, errorMessage) ==
  CASE f.type = "textbox" -> textboxHTML(f, errorMessage)
    [] f.type = "textarea" -> textareaHTML(f, errorMessage)
    [] f.type = "dropdown" -> dropdownHTML(f, errorMessage)
    [] f.type = "checkbox" -> toggleHTML(f, "checkbox")
    [] f.type = "checkboxlist" ->
         toggleListHTML(f, "checkbox", << <<"required", errorMessage>> >>)
    [] f.type = "radiobutton" -> toggleHTML(f, "radio")
    [] f.type = "radiobuttonlist" ->
         toggleListHTML(f, "radio", << <<"required", errorMessage>> >>)
    [] OTHER -> [textboxHTML(f, errorMessage) EXCEPT
                   !.errors = << <<"required", errorMessage>> >>]

\* as controlHTML, with the default arm a copy of 'textarea'
controlHTMLDefaultTextarea(f, errorMessage) ==
  CASE f.type = "textbox" -> textboxHTML(f, errorMessage)
    [] f.type = "textarea" -> textareaHTML(f, errorMessage)
    [] f.type = "dropdown" -> dropdownHTML(f, errorMessage)
    [] f.type = "checkbox" -> toggleHTML(f, "checkbox")
    [] f.type = "checkboxlist" -> toggleListHTML(f, "checkbox", <<>>)
    [] f.type = "radiobutton" -> toggleHTML(f, "radio")
    [] f.type = "radiobuttonlist" ->
         toggleListHTML(f, "radio", << <<"required", errorMessage>> >>)
    [] OTHER -> textareaHTML(f, errorMessage)

\* switch (type) { ... }
controlHTML(f, errorMessage) ==
  CASE f.type = "textbox" -> textboxHTML(f, errorMessage)
    [] f.type = "textarea" -> textareaHTML(f, errorMessage)
    [] f.type = "dropdown" -> dropdownHTML(f, errorMessage)
    [] f.type = "checkbox" -> toggleHTML(f, "checkbox")
    [] f.type = "checkboxlist" -> toggleListHTML(f, "checkbox", <<>>)
    [] f.type = "radiobutton" -> toggleHTML(f, "radio")
    [] f.type = "radiobuttonlist" ->
         toggleListHTML(f, "radio", << <<"required", errorMessage>> >>)
    [] OTHER -> textboxHTML(f, errorMessage)

\* validationMessage || defaultValidationMessage
errorMessageOf(f, subject) ==
  IF TruthyStr(f.validationMessage) THEN <<f.validationMessage[1]>>
  ELSE subject \o <<" is required">>

\* `<div class="form-group">${controlHTML}</div>`
formGroup(c) ==
  [wrapper |-> <<"form-group">>, label |-> c.label, control |-> c.control,
   errors |-> c.errors]

\* the callback of generateComponentHTMLContent: default message from the label
fieldHTMLContent(f) ==
  formGroup(controlHTML(f, errorMessageOf(f, toTitleCase(f.name))))

\* the callback of generateComponentHTML (createproj.ts): default message from the name
fieldHTML(f) == formGroup(controlHTML(f, errorMessageOf(f, f.name)))

\* the callback of generateComponentHTML (unnamed/part_001): one text input
\* and one error block per field, whatever its type
fieldHTMLMorph(f, columnClass) ==
  [wrapper |-> columnClass,
   label |-> [for |-> Some(f.name), text |-> capitalize(f.name), marker |-> ""],
   control |-> [tag |-> "input", type |-> "text", id |-> Some(f.name),
                name |-> f.name, required |-> FALSE, pattern |-> None,
                items |-> <<>>],
   errors |-> << <<"errors", <<"Invalid ">> \o f.name>> >>]

\* useBootstrap ? `col-md-${12 / columnLayout}` : `custom-col-${columnLayout}`;
\* the quotient of the floating-point division as its integer part and remainder
columnClassOf(useBootstrap, columnLayout) ==
  IF useBootstrap
  THEN <<"col-md-", 12 \div columnLayout, 12 % columnLayout>>
  ELSE <<"custom-col-", columnLayout>>

ColumnLayouts == {2, 3, 4}

----------------------------------------------------------------------------
(* Specifications handed to the flows.                                     *)

Component(n, m, f, b) == [name |-> n, menuName |-> m, fields |-> f, buttons |-> b]

\* like the example's `username`/`email`: flat required and regex, with a bundle
sampleTextbox ==
  Field(<<"a", "b">>, "textbox", Some(TRUE), Some("^[a-z]+$"), None,
        Some("Please enter a valid value."),
        Some([required |-> Some(TRUE), minLength |-> Some(3), maxLength |-> Some(10),
              regex |-> None, range |-> None]))

\* like the example's `description`: a type the switch does not know
sampleString == Field(<<"b">>, "string", None, None, None, None, None)

\* like the example's `country`
sampleDropdown ==
  Field(<<"a">>, "dropdown", Some(TRUE), None, Some(<<"USA", "Canada">>), None, None)

\* components: names that differ in letter case only, with and without menu
\* name and buttons
Components ==
  {Component(<<"A", "b">>, Some(<<"B">>), <<sampleTextbox, sampleDropdown>>,
             Some(<<"Submit", "Reset">>)),
   Component(<<"a", "b">>, None, <<sampleString>>, None),
   Component(<<"b">>, Some(<<>>), <<>>, Some(<<>>))}

RECURSIVE SeqsUpTo(_, _)
SeqsUpTo(S, n) ==
  IF n = 0 THEN {<<>>}
  ELSE LET shorter == SeqsUpTo(S, n - 1)
       IN shorter \cup {Append(q, x) : q \in shorter, x \in S}

Variants == {"direct", "routing", "morph", "cli"}

Inputs ==
  [variant : Variants,
   components : SeqsUpTo(Components, MaxComponents),
   menuType : {"horizontal", "vertical"},
   footerContent : {None, Some(""), Some("(c) 2024 MyCompany")},
   useBootstrap : BOOLEAN,
   columnLayout : ColumnLayouts]

----------------------------------------------------------------------------
(* Component artifacts.                                                    *)

\* generateComponentTSContent (createproj.ts, spec.json): the class is named
\* `${component.name}Component`
generateComponentTSContent(component) ==
  [selector |-> <<"app-">> \o toLowerCase(component.name),
   templateUrl |-> toLowerCase(component.name),
   styleUrls |-> toLowerCase(component.name),
   className |-> component.name \o <<"Component">>,
   form |-> None]

\* as generateComponentTS, with the class named after the name as given
generateComponentTSNotCapitalized(component) ==
  [selector |-> <<"app-">> \o toLowerCase(component.name),
   templateUrl |-> toLowerCase(component.name),
   styleUrls |-> toLowerCase(component.name),
   className |-> component.name \o <<"Component">>,
   form |-> None]

\* generateComponentTS (createproj.ts): the class name is capitalized
generateComponentTS(component) ==
  [selector |-> <<"app-">> \o toLowerCase(component.name),
   templateUrl |-> toLowerCase(component.name),
   styleUrls |-> toLowerCase(component.name),
   className |-> capitalize(component.name) \o <<"Component">>,
   form |-> None]

\* componentSourceFile.addClass({...}) (unnamed/part_001)
morphComponentClass(component) ==
  [selector |-> <<"app-">> \o component.name,
   templateUrl |-> component.name,
   styleUrls |-> component.name,
   className |-> capitalize(component.name) \o <<"Component">>,
   form |-> Some(generateValidationRules(component))]

submitButton == [type |-> "submit", label |-> "Submit"]

\* generateComponentHTMLContent (createproj.ts, spec.json)
generateComponentHTMLContent(component, useBootstrap, columnLayout) ==
  [layoutClass |-> IF useBootstrap THEN <<"row row-cols-", columnLayout>>
                   ELSE <<"custom-layout">>,
   fields |-> [i \in 1..Len(component.fields) |-> fieldHTMLContent(component.fields[i])],
   buttons |-> <<submitButton>>]

\* generateComponentHTML (createproj.ts)
generateComponentHTML(component) ==
  [layoutClass |-> <<>>,
   fields |-> [i \in 1..Len(component.fields) |-> fieldHTML(component.fields[i])],
   buttons |-> <<submitButton>>]

\* component.buttons.map(...) throws a TypeError when `buttons` is absent
morphHTMLThrows(component) == component.buttons = None

\* generateComponentHTML (unnamed/part_001), defined when it does not throw
generateComponentHTMLMorph(component, columnLayout, useBootstrap) ==
  [layoutClass |-> <<"row">>,
   fields |-> [i \in 1..Len(component.fields) |->
                 fieldHTMLMorph(component.fields[i],
                                columnClassOf(useBootstrap, columnLayout))],
   buttons |-> [i \in 1..Len(component.buttons[1]) |->
                  [type |-> "button", label |-> component.buttons[1][i]]]]

----------------------------------------------------------------------------
(* Routing table.                                                          *)

\* as redirects, with the two redirects aimed at the last component
redirectsToLast(components) ==
  << [path |-> <<>>, component |-> None,
      redirectTo |-> Some(<<"/">> \o toLowerCase(components[Len(components)].name)),
      pathMatch |-> Some("full")],
     [path |-> <<"**">>, component |-> None,
      redirectTo |-> Some(<<"/">> \o toLowerCase(components[Len(components)].name)),
      pathMatch |-> None] >>

redirects(components) ==
  << [path |-> <<>>, component |-> None,
      redirectTo |-> Some(<<"/">> \o toLowerCase(components[1].name)),
      pathMatch |-> Some("full")],
     [path |-> <<"**">>, component |-> None,
      redirectTo |-> Some(<<"/">> \o toLowerCase(components[1].name)),
      pathMatch |-> None] >>

importOf(component, ident) ==
  [ident |-> ident,
   from |-> <<toLowerCase(component.name), toLowerCase(component.name)>>]

routeOf(component, ident) ==
  [path |-> toLowerCase(component.name), component |-> Some(ident),
   redirectTo |-> None, pathMatch |-> None]

\* components[0].name throws a TypeError on an empty list
routingThrows(components) == components = <<>>

\* generateAppRoutingModuleContent (createproj.ts, spec.json), when it does not throw
generateAppRoutingModuleContent(components) ==
  [imports |-> [i \in 1..Len(components) |->
                  importOf(components[i], components[i].name \o <<"Component">>)],
   routes |-> [i \in 1..Len(components) |->
                 routeOf(components[i], components[i].name \o <<"Component">>)]
              \o redirects(components)]

\* generateAppRoutingModule (createproj.ts), when it does not throw
generateAppRoutingModule(components) ==
  [imports |-> [i \in 1..Len(components) |->
                  importOf(components[i],
                           capitalize(components[i].name) \o <<"Component">>)],
   routes |-> [i \in 1..Len(components) |->
                 routeOf(components[i],
                         capitalize(components[i].name) \o <<"Component">>)]
              \o redirects(components)]

----------------------------------------------------------------------------
(* Menu and shell.                                                         *)

\* as menuLabel, with the menu name never read
menuLabelNameOnly(component) == component.name

\* component.menuName || component.name
menuLabel(component) ==
  IF component.menuName # None /\ component.menuName[1] # <<>>
  THEN component.menuName[1] ELSE component.name

menuItems(components) ==
  [i \in 1..Len(components) |->
     [routerLink |-> <<"/">> \o toLowerCase(components[i].name),
      text |-> menuLabel(components[i])]]

\* generateMenuHTMLContent (createproj.ts, spec.json)
generateMenuHTMLContent(components, menuType, useBootstrap) ==
  [class |-> IF useBootstrap
             THEN (IF menuType = "vertical" THEN "nav flex-column" ELSE "nav nav-pills")
             ELSE (IF menuType = "vertical" THEN "custom-vertical-menu"
                   ELSE "custom-horizontal-menu"),
   style |-> "",
   links |-> menuItems(components)]

\* generateMenuHTML (createproj.ts)
generateMenuHTML(components, menuType) ==
  [class |-> "",
   style |-> IF menuType = "vertical" THEN "flex-direction: column; gap: 10px"
             ELSE "flex-direction: row; gap: 20px",
   links |-> menuItems(components)]

\* as footerHtmlOf, with the element written whenever the attribute is present
footerHtmlAlways(footerContent) ==
  IF footerContent # <<>> THEN Some([tag |-> "footer", text |-> footerContent[1]])
  ELSE None

\* footerContent ? `<footer>${footerContent}</footer>` : ''
footerHtmlOf(footerContent) ==
  IF TruthyStr(footerContent) THEN Some([tag |-> "footer", text |-> footerContent[1]])
  ELSE None

\* as appComponentHtml, with the footer fragment above the navigation
appComponentHtmlFooterFirst(menuHtml, footerHtml) ==
  <<[part |-> "footer", body |-> footerHtml],
    [part |-> "nav", body |-> <<menuHtml>>],
    [part |-> "router-outlet", body |-> <<>>]>>

\* `${menuHtml} <router-outlet></router-outlet> ${footerHtml}`
appComponentHtml(menuHtml, footerHtml) ==
  <<[part |-> "nav", body |-> <<menuHtml>>],
    [part |-> "router-outlet", body |-> <<>>],
    [part |-> "footer", body |-> footerHtml]>>

----------------------------------------------------------------------------
(* Files.  A path is the number of projectName segments between the start  *)
(* directory and the file, then the directory and file below src/app.      *)

\* as componentFile, with every component's files in one directory under one name
componentFileFlat(depth, dirname, ext) ==
  [depth |-> depth, dir |-> <<>>, file |-> <<"component">>, ext |-> ext]

componentFile(depth, dirname, ext) ==
  [depth |-> depth, dir |-> dirname, file |-> dirname, ext |-> ext]

appFile(depth, file, ext) ==
  [depth |-> depth, dir |-> <<>>, file |-> <<file>>, ext |-> ext]

\* angular.json of the project at that depth (not below src/app)
angularJsonFile(depth) ==
  [depth |-> depth, dir |-> <<>>, file |-> <<"angular">>, ext |-> "json"]

\* as Put, with a file that exists left as it is
PutIfAbsent(f, p, c) == [q \in DOMAIN f \cup {p} |-> IF q \in DOMAIN f THEN f[q] ELSE c]

Put(f, p, c) == [q \in DOMAIN f \cup {p} |-> IF q = p THEN c ELSE f[q]]

\* the writes of a sequence of <<path, content>> pairs, in order
RECURSIVE PutAll(_, _)
PutAll(f, writes) ==
  IF writes = <<>> THEN f
  ELSE PutAll(Put(f, writes[1][1], writes[1][2]), Tail(writes))

writeEvents(writes) == [i \in 1..Len(writes) |-> <<"write", writes[i][1]>>]

\* project.createSourceFile(path, content, { overwrite: true })
createSourceFile(proj, p, c) ==
  IF \E i \in 1..Len(proj) : proj[i][1] = p
  THEN [i \in 1..Len(proj) |-> IF proj[i][1] = p THEN <<p, c>> ELSE proj[i]]
  ELSE Append(proj, <<p, c>>)

\* the directory the flow's relative paths resolve into: `${projectName}/...`
\* from the start directory (direct, routing), the working directory after
\* process.chdir (morph: projectPath; cli: relative paths)
projectDepth ==
  IF input.variant \in {"direct", "routing"} THEN cwd + 1 ELSE cwd

\* the directory of a component's files: the lowercased name, and the name as
\* given in unnamed/part_001
componentDir(component) ==
  IF input.variant = "morph" THEN component.name ELSE toLowerCase(component.name)

loopHead == IF input.variant = "morph" THEN "generate" ELSE "component"

\* as afterSetup, with the routing module never created
afterSetupSkipsRouting == IF input.variant = "morph" THEN "generate" ELSE "component"

afterSetup == IF input.variant = "morph" THEN "generate" ELSE "routing"

phase(name) == <<"phase", name>>

exec(cmd, arg, ok) == <<"exec", cmd, arg, ok>>

----------------------------------------------------------------------------
(* The flows.                                                              *)

Init ==
  /\ input \in Inputs
  /\ pc = "skeleton"
  /\ idx = 1
  /\ cwd = 0
  /\ fs = <<>>
  /\ project = <<>>
  /\ artifacts = <<>>
  /\ log = <<>>
  /\ run = 1
  /\ prevArtifacts = <<>>
  /\ field = None
  /\ out = None

\* direct: fs.emptyDirSync(projectName); fs.ensureDirSync(`${projectName}/src/app`)
CreateSkeleton ==
  /\ pc = "skeleton"
  /\ input.variant = "direct"
  /\ fs' = [p \in {q \in DOMAIN fs : q.depth < cwd + 1} |-> fs[p]]
  /\ log' = Append(log, phase("SkeletonRequested"))
  /\ pc' = "routing"
  /\ UNCHANGED <<input, idx, cwd, project, artifacts, run, prevArtifacts, field, out>>

\* routing, morph, cli: execSync(`ng new ...`); execSync throws when the tool fails
ExecSkeleton ==
  /\ pc = "skeleton"
  /\ input.variant # "direct"
  /\ \E ok \in BOOLEAN :
       /\ log' = IF ok THEN log \o <<exec("ng new", 0, TRUE), phase("SkeletonRequested")>>
                 ELSE Append(log, exec("ng new", 0, FALSE))
       /\ fs' = IF ok THEN Put(fs, angularJsonFile(cwd + 1), <<"src/styles.css">>) ELSE fs
       /\ pc' = IF ~ok THEN "aborted"
                ELSE IF input.variant = "routing" THEN "component" ELSE "chdir"
  /\ UNCHANGED <<input, idx, cwd, project, artifacts, run, prevArtifacts, field, out>>

\* morph: process.chdir(projectPath); cli: process.chdir(projectName)
Chdir ==
  /\ pc = "chdir"
  /\ cwd' = cwd + 1
  /\ pc' = IF input.variant = "cli" THEN "install"
           ELSE IF input.useBootstrap THEN "bootstrap" ELSE afterSetup
  /\ UNCHANGED <<input, idx, fs, project, artifacts, log, run, prevArtifacts, field, out>>

\* cli: execSync('npm install')
NpmInstall ==
  /\ pc = "install"
  /\ \E ok \in BOOLEAN :
       /\ log' = Append(log, exec("npm install", 0, ok))
       /\ pc' = IF ~ok THEN "aborted"
                ELSE IF input.useBootstrap THEN "bootstrap" ELSE afterSetup
  /\ UNCHANGED <<input, idx, cwd, fs, project, artifacts, run, prevArtifacts, field, out>>

\* morph, cli: if (useBootstrap) execSync('npm install bootstrap')
InstallBootstrap ==
  /\ pc = "bootstrap"
  /\ \E ok \in BOOLEAN :
       /\ log' = Append(log, exec("npm install bootstrap", 0, ok))
       /\ pc' = IF ok THEN "angularJson" ELSE "aborted"
  /\ UNCHANGED <<input, idx, cwd, fs, project, artifacts, run, prevArtifacts, field, out>>

\* morph, cli: read angular.json, push the stylesheet, write it back
PatchAngularJson ==
  /\ pc = "angularJson"
  /\ fs' = Put(fs, angularJsonFile(cwd),
               Append(fs[angularJsonFile(cwd)], "bootstrap.min.css"))
  /\ log' = Append(log, <<"config", angularJsonFile(cwd)>>)
  /\ pc' = afterSetup
  /\ UNCHANGED <<input, idx, cwd, project, artifacts, run, prevArtifacts, field, out>>

\* direct, cli: createSourceFile of app.module.ts and of app-routing.module.ts
\* with generateAppRoutingModuleContent(components)
CreateRoutingSource ==
  /\ pc = "routing"
  /\ input.variant \in {"direct", "cli"}
  /\ IF routingThrows(input.components)
     THEN /\ pc' = "aborted"
          /\ log' = Append(log, <<"throw", "routing">>)
          /\ project' = createSourceFile(project,
                          appFile(projectDepth, "app", "module.ts"), <<>>)
     ELSE /\ pc' = "component"
          /\ log' = Append(log, phase("RoutingGenerated"))
          /\ project' = createSourceFile(
                          createSourceFile(project,
                            appFile(projectDepth, "app", "module.ts"), <<>>),
                          appFile(projectDepth, "app-routing", "module.ts"),
                          generateAppRoutingModuleContent(input.components))
  /\ UNCHANGED <<input, idx, cwd, fs, artifacts, run, prevArtifacts, field, out>>

\* as NgGenerateComponent, with a failed invocation issued again
NgGenerateComponentRetry ==
  /\ pc = "generate"
  /\ idx <= Len(input.components)
  /\ \E ok \in BOOLEAN :
       /\ log' = Append(log, exec("ng generate component", idx, ok))
       /\ pc' = IF ok THEN "component" ELSE "generate"
  /\ UNCHANGED <<input, idx, cwd, fs, project, artifacts, run, prevArtifacts, field, out>>

\* morph: execSync(`ng generate component ${component.name}`)
NgGenerateComponent ==
  /\ pc = "generate"
  /\ idx <= Len(input.components)
  /\ \E ok \in BOOLEAN :
       /\ log' = Append(log, exec("ng generate component", idx, ok))
       /\ pc' = IF ok THEN "component" ELSE "aborted"
  /\ UNCHANGED <<input, idx, cwd, fs, project, artifacts, run, prevArtifacts, field, out>>

\* the files one pass of the component loop writes, in order
componentWrites(component) ==
  LET dir == componentDir(component)
      ts == componentFile(projectDepth, dir, "component.ts")
      html == componentFile(projectDepth, dir, "component.html")
      css == componentFile(projectDepth, dir, "component.css")
  IN CASE input.variant \in {"direct", "cli"} ->
            << <<html, generateComponentHTMLContent(component, input.useBootstrap,
                                                    input.columnLayout)>>,
               <<css, <<>>>> >>
       [] input.variant = "routing" ->
            << <<html, generateComponentHTML(component)>>,
               <<ts, generateComponentTS(component)>>,
               <<css, <<>>>> >>
       [] input.variant = "morph" ->
            << <<ts, morphComponentClass(component)>> >>
            \o (IF morphHTMLThrows(component) THEN <<>>
                ELSE << <<html, generateComponentHTMLMorph(component,
                                  input.columnLayout, input.useBootstrap)>> >>)

\* one pass of the component loop
GenerateComponent ==
  /\ pc = "component"
  /\ idx <= Len(input.components)
  /\ LET component == input.components[idx]
         writes == componentWrites(component)
         throws == input.variant = "morph" /\ morphHTMLThrows(component)
     IN /\ fs' = PutAll(fs, writes)
        /\ artifacts' = PutAll(artifacts, writes)
        /\ log' = log \o writeEvents(writes)
                  \o (IF throws THEN << <<"throw", "buttons">> >> ELSE <<>>)
        /\ project' = IF input.variant \in {"direct", "cli"}
                      THEN createSourceFile(project,
                             componentFile(projectDepth, componentDir(component),
                                           "component.ts"),
                             generateComponentTSContent(component))
                      ELSE project
        /\ pc' = IF throws THEN "aborted" ELSE loopHead
        /\ idx' = IF throws THEN idx ELSE idx + 1
  /\ UNCHANGED <<input, cwd, run, prevArtifacts, field, out>>

\* the loop has run over every component
EndLoop ==
  /\ pc = loopHead
  /\ idx > Len(input.components)
  /\ pc' = CASE input.variant \in {"direct", "cli"} -> "shell"
             [] input.variant = "routing" -> "routing"
             [] input.variant = "morph" -> "done"
  /\ log' = log \o <<phase("ComponentsGenerated")>>
            \o (IF input.variant = "morph" THEN <<phase("Done")>> ELSE <<>>)
  /\ UNCHANGED <<input, idx, cwd, fs, project, artifacts, run, prevArtifacts, field, out>>

\* routing: fs.writeFileSync(app-routing.module.ts, generateAppRoutingModule(components))
WriteRouting ==
  /\ pc = "routing"
  /\ input.variant = "routing"
  /\ IF routingThrows(input.components)
     THEN /\ pc' = "aborted"
          /\ log' = Append(log, <<"throw", "routing">>)
          /\ UNCHANGED <<fs, artifacts>>
     ELSE LET writes == << <<appFile(projectDepth, "app-routing", "module.ts"),
                             generateAppRoutingModule(input.components)>> >>
          IN /\ pc' = "shell"
             /\ fs' = PutAll(fs, writes)
             /\ artifacts' = PutAll(artifacts, writes)
             /\ log' = log \o writeEvents(writes) \o <<phase("RoutingGenerated")>>
  /\ UNCHANGED <<input, idx, cwd, project, run, prevArtifacts, field, out>>

menuHtmlOf ==
  IF input.variant = "routing"
  THEN generateMenuHTML(input.components, input.menuType)
  ELSE generateMenuHTMLContent(input.components, input.menuType, input.useBootstrap)

\* direct, routing, cli: fs.writeFileSync(app.component.html, ...)
WriteShell ==
  /\ pc = "shell"
  /\ LET writes == << <<appFile(projectDepth, "app", "component.html"),
                        appComponentHtml(menuHtmlOf,
                                         footerHtmlOf(input.footerContent))>> >>
     IN /\ fs' = PutAll(fs, writes)
        /\ artifacts' = PutAll(artifacts, writes)
        /\ log' = log \o writeEvents(writes) \o <<phase("ShellAssembled")>>
                  \o (IF input.variant = "routing" THEN <<phase("Done")>> ELSE <<>>)
  /\ pc' = IF input.variant = "routing" THEN "done" ELSE "save"
  /\ UNCHANGED <<input, idx, cwd, project, run, prevArtifacts, field, out>>

\* direct, cli: project.saveSync()
SaveProject ==
  /\ pc = "save"
  /\ fs' = PutAll(fs, project)
  /\ artifacts' = PutAll(artifacts, project)
  /\ log' = log \o writeEvents(project) \o <<phase("Done")>>
  /\ pc' = "done"
  /\ UNCHANGED <<input, idx, cwd, project, run, prevArtifacts, field, out>>

\* the flow is called again in the same process with the same arguments
Rerun ==
  /\ pc = "done"
  /\ run < MaxRuns
  /\ run' = run + 1
  /\ prevArtifacts' = artifacts
  /\ artifacts' = <<>>
  /\ log' = <<>>
  /\ project' = <<>>
  /\ idx' = 1
  /\ pc' = "skeleton"
  /\ UNCHANGED <<input, cwd, fs, field, out>>

Next ==
  \/ CreateSkeleton
  \/ ExecSkeleton
  \/ Chdir
  \/ NpmInstall
  \/ InstallBootstrap
  \/ PatchAngularJson
  \/ CreateRoutingSource
  \/ NgGenerateComponent
  \/ GenerateComponent
  \/ EndLoop
  \/ WriteRouting
  \/ WriteShell
  \/ SaveProject
  \/ Rerun

Spec == Init /\ [][Next]_vars

----------------------------------------------------------------------------
(* The per-field generators applied to one field.                          *)

InitField ==
  /\ field \in Fields
  /\ out = [op |-> "none", value |-> <<>>]
  /\ input = None
  /\ pc = "idle"
  /\ idx = 0
  /\ cwd = 0
  /\ fs = <<>>
  /\ project = <<>>
  /\ artifacts = <<>>
  /\ log = <<>>
  /\ run = 0
  /\ prevArtifacts = <<>>

\* generateValidationRules of unnamed/part_001 on the field
CompileField ==
  /\ out.op = "none"
  /\ out' = [op |-> "generateValidationRules", value |-> fieldValidationRule(field)]
  /\ UNCHANGED <<field, runVars>>

\* generateComponentHTMLContent of createproj.ts and spec.json on the field
RenderContent ==
  /\ out.op = "none"
  /\ out' = [op |-> "generateComponentHTMLContent", value |-> fieldHTMLContent(field)]
  /\ UNCHANGED <<field, runVars>>

\* generateComponentHTML of createproj.ts on the field
RenderHTML ==
  /\ out.op = "none"
  /\ out' = [op |-> "generateComponentHTML", value |-> fieldHTML(field)]
  /\ UNCHANGED <<field, runVars>>

\* generateComponentHTML of unnamed/part_001 on the field
RenderMorph ==
  /\ out.op = "none"
  /\ \E useBootstrap \in BOOLEAN, columnLayout \in ColumnLayouts :
       out' = [op |-> "generateComponentHTMLMorph",
               value |-> fieldHTMLMorph(field, columnClassOf(useBootstrap, columnLayout))]
  /\ UNCHANGED <<field, runVars>>

NextField ==
  \/ CompileField
  \/ RenderContent
  \/ RenderHTML
  \/ RenderMorph

SpecField == InitField /\ [][NextField]_vars

----------------------------------------------------------------------------
(* The identifier derivations applied to one word, and again to their own   *)
(* result.                                                                  *)

Letters == {"a", "b", "A", "U+00DF", "S", "s"}

\* the single-word inputs: no space, the empty string included
Words == SeqsUpTo(Letters, MaxWordLen)

InitName ==
  /\ field \in Words
  /\ out = [op |-> "none", n |-> 0, value |-> <<>>, first |-> <<>>]
  /\ input = None
  /\ pc = "idle"
  /\ idx = 0
  /\ cwd = 0
  /\ fs = <<>>
  /\ project = <<>>
  /\ artifacts = <<>>
  /\ log = <<>>
  /\ run = 0
  /\ prevArtifacts = <<>>

\* capitalize of unnamed/part_001 (the class form of a name)
Capitalize ==
  /\ out.op \in {"none", "capitalize"}
  /\ out.n < 2
  /\ LET r == capitalize(IF out.n = 0 THEN field ELSE out.value)
     IN out' = [op |-> "capitalize", n |-> out.n + 1, value |-> r,
                first |-> IF out.n = 0 THEN r ELSE out.first]
  /\ UNCHANGED <<field, runVars>>

\* name.toLowerCase() (the path form of a name)
ToLowerCase ==
  /\ out.op \in {"none", "toLowerCase"}
  /\ out.n < 2
  /\ LET r == toLowerCase(IF out.n = 0 THEN field ELSE out.value)
     IN out' = [op |-> "toLowerCase", n |-> out.n + 1, value |-> r,
                first |-> IF out.n = 0 THEN r ELSE out.first]
  /\ UNCHANGED <<field, runVars>>

\* toTitleCase of createproj.ts and spec.json (the label form of a name)
ToTitleCase ==
  /\ out.op \in {"none", "toTitleCase"}
  /\ out.n < 2
  /\ LET r == toTitleCase(IF out.n = 0 THEN field ELSE out.value)
     IN out' = [op |-> "toTitleCase", n |-> out.n + 1, value |-> r,
                first |-> IF out.n = 0 THEN r ELSE out.first]
  /\ UNCHANGED <<field, runVars>>

NextName ==
  \/ Capitalize
  \/ ToLowerCase
  \/ ToTitleCase

SpecName == InitName /\ [][NextName]_vars

----------------------------------------------------------------------------
(* Vocabulary of the properties.                                           *)

\* p is s with every letter lowercased, stated by the table of letters
IsLowercased(p, s) ==
  /\ Len(p) = Len(s)
  /\ \A i \in 1..Len(s) :
       <<s[i], p[i]>> \in {<<"A", "a">>, <<"a", "a">>, <<"B", "b">>, <<"b", "b">>}

\* the routing tables the run holds: in the ts-morph project and on disk
RoutingTables ==
  {project[i][2] : i \in {j \in 1..Len(project) : project[j][1].file = <<"app-routing">>}}
  \cup {artifacts[p] : p \in {q \in DOMAIN artifacts : q.file = <<"app-routing">>}}

IsWrite(e) == e[1] = "write"

IsExec(e) == e[1] = "exec"

IsPhase(e) == e[1] = "phase"

\* the states of 4.7 the run has entered, in order
Phases ==
  LET p == SelectSeq(log, IsPhase) IN [i \in 1..Len(p) |-> p[i][2]]

HasRequiredError(fragment) ==
  \E i \in 1..Len(fragment.errors) : fragment.errors[i][1] = "required"

HasPatternError(fragment) ==
  \E i \in 1..Len(fragment.errors) : fragment.errors[i][1] = "pattern"

NoRequiredErrorTypes == {"checkbox", "checkboxlist", "radiobutton"}

PatternErrorTypes == {"textbox"} \cup (InputTypes \ FieldTypes)

----------------------------------------------------------------------------
(* C1: for a specification with at least one component, the routing table  *)
(* has exactly len(components) + 2 entries, and its last two entries, the   *)
(* empty-path redirect and then the wildcard redirect, both redirect to the *)
(* lowercased name of the first component.                                  *)
C1_RoutingTableSize ==
  \A t \in RoutingTables :
    LET n == Len(input.components)
    IN /\ n >= 1
       /\ Len(t.routes) = n + 2
       /\ t.routes[n + 1].path = <<>>
       /\ t.routes[n + 2].path = <<"**">>
       /\ \A k \in {n + 1, n + 2} :
            /\ t.routes[k].component = None
            /\ t.routes[k].redirectTo # None
            /\ Head(t.routes[k].redirectTo[1]) = "/"
            /\ IsLowercased(Tail(t.routes[k].redirectTo[1]), input.components[1].name)

C1_Witness ==
  /\ pc = "done"
  /\ RoutingTables # {}
  /\ Len(input.components) = 2
  /\ input.components[1].name = <<"A", "b">>
  /\ input.components[2].name = <<"b">>

----------------------------------------------------------------------------
\* the run ended on one of the two fatal conditions of 7: an external tool
\* failed, or the component list was empty where the default route is needed
FatalAbort ==
  /\ pc = "aborted"
  /\ log # <<>>
  /\ LET last == log[Len(log)]
     IN \/ (IsExec(last) /\ ~last[4])
        \/ last = <<"throw", "routing">>

(* C2: all-or-nothing.  At the moment a run aborts on a fatal condition (an *)
(* external tool invocation failed, or the component list is empty), no     *)
(* artifact has been written by it.                                         *)
C2_AllOrNothing == FatalAbort => DOMAIN artifacts = {}

----------------------------------------------------------------------------
OrderOf47 ==
  <<"SkeletonRequested", "ComponentsGenerated", "RoutingGenerated",
    "ShellAssembled", "Done">>

\* the order in which each flow enters the states
PhasesOf(variant) ==
  CASE variant = "routing" -> OrderOf47
    [] variant \in {"direct", "cli"} ->
         <<"SkeletonRequested", "RoutingGenerated", "ComponentsGenerated",
           "ShellAssembled", "Done">>
    [] variant = "morph" -> <<"SkeletonRequested", "ComponentsGenerated", "Done">>

IsPrefix(p, q) == Len(p) <= Len(q) /\ p = SubSeq(q, 1, Len(p))

(* C3, as the specification states it: every successful run passes through *)
(* SkeletonRequested, ComponentsGenerated, RoutingGenerated, ShellAssembled, *)
(* Done in exactly that order.                                              *)
C3_OrderOf47 == pc = "done" => Phases = OrderOf47

(* C3, amended: a run enters each state at most once and re-enters none; it *)
(* requests the skeleton before anything is generated or written and a      *)
(* successful run ends in Done.  generateAngularProjectWithRouting passes   *)
(* through SkeletonRequested, ComponentsGenerated, RoutingGenerated,        *)
(* ShellAssembled, Done; generateAngularProjectWithTSMorph of createproj.ts *)
(* and of spec.json generates the routing table before the components; and *)
(* generateAngularProjectWithTSMorph of unnamed/part_001 generates neither  *)
(* routing table nor shell.                                                 *)
C3_PhaseOrder ==
  /\ \A i, j \in 1..Len(Phases) : Phases[i] = Phases[j] => i = j
  /\ IsPrefix(Phases, PhasesOf(input.variant))
  /\ pc = "done" => Phases = PhasesOf(input.variant)
  /\ (project # <<>> \/ DOMAIN artifacts # {}) =>
       (Phases # <<>> /\ Phases[1] = "SkeletonRequested")

C3_Witness ==
  /\ pc = "done"
  /\ input.variant = "cli"
  /\ Len(input.components) = 2
  /\ Phases = <<"SkeletonRequested", "RoutingGenerated", "ComponentsGenerated",
                "ShellAssembled", "Done">>

----------------------------------------------------------------------------
(* C4: the skeleton-creation invocation happens first, the styling-package  *)
(* installation (performed only when the styled-grid option is on) after    *)
(* it, every artifact write after both, and no external tool invocation     *)
(* after the first artifact write.                                          *)
C4_InvocationsBeforeWrites ==
  /\ \A i \in 1..Len(log) :
       IsExec(log[i]) =>
         /\ (log[i][2] = "ng new" <=> i = 1)
         /\ (log[i][2] = "npm install bootstrap" => input.useBootstrap)
  /\ \A i, j \in 1..Len(log) :
       (IsWrite(log[i]) /\ IsExec(log[j])) => j < i

----------------------------------------------------------------------------
(* C5: no retry and no recovery.  Within one run no external invocation is  *)
(* issued twice, and once an invocation has failed the run executes no      *)
(* further step: the failure is the last event of the run.                  *)
C5_NoRetry ==
  /\ \A i, j \in 1..Len(log) :
       (IsExec(log[i]) /\ IsExec(log[j])
          /\ log[i][2] = log[j][2] /\ log[i][3] = log[j][3]) => i = j
  /\ \A i \in 1..Len(log) :
       (IsExec(log[i]) /\ ~log[i][4]) => (i = Len(log) /\ pc = "aborted")
  /\ pc = "aborted" => ~ENABLED Next

C5_Witness ==
  /\ pc = "aborted"
  /\ log # <<>>
  /\ log[Len(log)] = exec("ng generate component", 2, FALSE)
  /\ DOMAIN artifacts # {}

----------------------------------------------------------------------------
(* C6: determinism.  A second run of the flow on the same specification and *)
(* style options yields the same artifact paths with the same content as    *)
(* the first, whatever the first run left behind.                           *)
C6_SecondRunSame == (pc = "done" /\ run = 2) => artifacts = prevArtifacts

----------------------------------------------------------------------------
\* the directives 4.2 gives a structured bundle: one per sub-field present
BundleDirectives(b) ==
  (IF b.required = Some(TRUE) THEN << <<"required">> >> ELSE <<>>)
  \o (IF b.minLength # None THEN << <<"minLength", b.minLength[1]>> >> ELSE <<>>)
  \o (IF b.maxLength # None THEN << <<"maxLength", b.maxLength[1]>> >> ELSE <<>>)
  \o (IF b.regex # None THEN << <<"pattern", b.regex[1]>> >> ELSE <<>>)
  \o (IF b.range # None
      THEN << <<"min", b.range[1][1]>>, <<"max", b.range[1][2]>> >> ELSE <<>>)

\* the directives 4.2 gives the flat attributes
FlatDirectives(f) ==
  (IF f.required = Some(TRUE) THEN << <<"required">> >> ELSE <<>>)
  \o (IF f.regex # None /\ f.regex[1] # ""
      THEN << <<"pattern", f.regex[1]>> >> ELSE <<>>)

Compiled == out.op = "generateValidationRules"

(* C7: for a field with a structured validation bundle the compiled        *)
(* directive sequence holds one directive for each sub-field that is        *)
(* present, and nothing else, in the order Required, MinLength, MaxLength,  *)
(* Pattern, Min, Max.                                                       *)
C7_BundleDirectives ==
  (Compiled /\ field.validations # None) =>
    out.value.validators = BundleDirectives(field.validations[1])

(* C8: for a field without a structured validation bundle the compiled     *)
(* directive sequence is Required, if and only if the flat required         *)
(* attribute is true, followed by Pattern(regex), if and only if the flat   *)
(* regex attribute is set.                                                  *)
C8_FlatDirectives ==
  (Compiled /\ field.validations = None) =>
    out.value.validators = FlatDirectives(field)

----------------------------------------------------------------------------
Rendered ==
  out.op \in {"generateComponentHTMLContent", "generateComponentHTML",
              "generateComponentHTMLMorph"}

RenderedBySwitch ==
  out.op \in {"generateComponentHTMLContent", "generateComponentHTML"}

(* C9, as the specification states it: the fragment of every field holds a *)
(* required-error block exactly when its type is textbox, textarea,         *)
(* dropdown, radiobuttonlist or unrecognized, and a pattern-error block     *)
(* exactly when its type is textbox or unrecognized and it has a pattern.   *)
C9_ErrorBlocksEveryRenderer ==
  Rendered =>
    /\ HasRequiredError(out.value) <=> field.type \notin NoRequiredErrorTypes
    /\ HasPatternError(out.value) <=>
         (field.type \in PatternErrorTypes /\ field.regex # None)

(* C9, amended: in the renderers that dispatch on the field type            *)
(* (generateComponentHTMLContent, generateComponentHTML of createproj.ts)   *)
(* the fragment holds one required-error block exactly when the type is     *)
(* textbox, textarea, dropdown, radiobuttonlist or unrecognized, and one    *)
(* pattern-error block exactly when the type is textbox or unrecognized and *)
(* the pattern is a non-empty string; generateComponentHTML of              *)
(* unnamed/part_001 gives every field, whatever its type, one error block   *)
(* that is neither.                                                         *)
C9_ErrorBlocks ==
  /\ RenderedBySwitch =>
       LET e == out.value.errors
           wantRequired == field.type \notin NoRequiredErrorTypes
           wantPattern == /\ field.type \in PatternErrorTypes
                          /\ field.regex # None
                          /\ field.regex[1] # ""
       IN /\ Cardinality({i \in 1..Len(e) : e[i][1] = "required"})
               = (IF wantRequired THEN 1 ELSE 0)
          /\ Cardinality({i \in 1..Len(e) : e[i][1] = "pattern"})
               = (IF wantPattern THEN 1 ELSE 0)
          /\ Len(e) = (IF wantRequired THEN 1 ELSE 0) + (IF wantPattern THEN 1 ELSE 0)
  /\ out.op = "generateComponentHTMLMorph" =>
       /\ Len(out.value.errors) = 1
       /\ ~HasRequiredError(out.value)
       /\ ~HasPatternError(out.value)

C9_Witness ==
  /\ out.op = "generateComponentHTML"
  /\ field.type = "string"
  /\ field.regex = Some("^[a-z]+$")
  /\ field.required = None
  /\ HasRequiredError(out.value)
  /\ HasPatternError(out.value)

----------------------------------------------------------------------------
\* required by either validation path
IsRequired(f) ==
  \/ f.required = Some(TRUE)
  \/ (f.validations # None /\ f.validations[1].required = Some(TRUE))

(* C10: for every field and every field type the required marker is        *)
(* appended to the label if and only if the field is required, by its flat  *)
(* required attribute or by its structured validation bundle alone.         *)
C10_RequiredMarker ==
  out.op = "generateComponentHTMLContent" =>
    (out.value.label.marker = " *" <=> IsRequired(field))

----------------------------------------------------------------------------
\* the options the field declares
DeclaredOptions(f) == IF f.options = None THEN <<>> ELSE f.options[1]

(* C11: rendering a dropdown field with n declared options yields a control *)
(* with exactly n + 1 selectable entries: one blank entry first, then each  *)
(* declared option once, verbatim, in declared order.                       *)
C11_DropdownEntries ==
  (RenderedBySwitch /\ field.type = "dropdown") =>
    LET items == out.value.control.items
        options == DeclaredOptions(field)
    IN /\ out.value.control.tag = "select"
       /\ Len(items) = Len(options) + 1
       /\ items[1].value = ""
       /\ \A i \in 1..Len(options) :
            items[i + 1].value = options[i] /\ items[i + 1].text = options[i]

C11_Witness ==
  /\ out.op = "generateComponentHTML"
  /\ field.type = "dropdown"
  /\ field.options = Some(<<"USA", "Canada">>)
  /\ Len(out.value.control.items) = 3

----------------------------------------------------------------------------
(* C12: rendering a checkboxlist field with n declared options yields       *)
(* exactly n toggle controls, one per option in declared order, all         *)
(* carrying the field's name, and no required-error block whether the       *)
(* field's required flag is true or false.                                  *)
C12_CheckboxList ==
  (RenderedBySwitch /\ field.type = "checkboxlist") =>
    LET items == out.value.control.items
        options == DeclaredOptions(field)
    IN /\ Len(items) = Len(options)
       /\ \A i \in 1..Len(options) :
            /\ items[i].type = "checkbox"
            /\ items[i].name = field.name
            /\ items[i].value = options[i]
            /\ items[i].text = options[i]
       /\ ~HasRequiredError(out.value)

C12_Witness ==
  /\ out.op = "generateComponentHTMLContent"
  /\ field.type = "checkboxlist"
  /\ field.required = Some(TRUE)
  /\ field.options = Some(<<"USA", "Canada">>)
  /\ Len(out.value.control.items) = 2
  /\ out.value.errors = <<>>

----------------------------------------------------------------------------
\* the same field with its type replaced by textbox
AsTextbox(f) == [f EXCEPT !.type = "textbox"]

(* C13: for every field whose type is not one of the seven recognized      *)
(* types, rendering succeeds and the rendered fragment is identical to the  *)
(* fragment rendered for the same field with type textbox.                  *)
C13_UnrecognizedAsTextbox ==
  (Rendered /\ field.type \notin FieldTypes) =>
    out.value =
      CASE out.op = "generateComponentHTMLContent" -> fieldHTMLContent(AsTextbox(field))
        [] out.op = "generateComponentHTML" -> fieldHTML(AsTextbox(field))
        [] out.op = "generateComponentHTMLMorph" ->
             fieldHTMLMorph(AsTextbox(field), out.value.wrapper)

C13_Witness ==
  /\ out.op = "generateComponentHTMLContent"
  /\ field.type = "string"
  /\ field.regex = Some("^[a-z]+$")
  /\ field.required = Some(TRUE)
  /\ out.value.control.tag = "input"
  /\ out.value.control.pattern = Some("^[a-z]+$")
  /\ Len(out.value.errors) = 2

----------------------------------------------------------------------------
\* the shell markup the run has written (app.component.html)
Shells ==
  {artifacts[p] : p \in {q \in DOMAIN artifacts :
                           q.dir = <<>> /\ q.file = <<"app">> /\ q.ext = "component.html"}}

\* footer text is supplied: present and not the empty string
FooterSupplied == input.footerContent # None /\ input.footerContent[1] # ""

(* C14: the shell markup contains a footer element if and only if footer    *)
(* text is supplied; when none is supplied (absent or empty) the footer     *)
(* fragment is the empty string, and no run produces a footer element with  *)
(* empty content.                                                           *)
C14_Footer ==
  \A s \in Shells :
    /\ (\E k \in 1..Len(s) : s[k].part = "footer" /\ s[k].body # None) <=> FooterSupplied
    /\ \A k \in 1..Len(s) :
         (s[k].part = "footer" /\ s[k].body # None) =>
           /\ s[k].body[1].tag = "footer"
           /\ s[k].body[1].text # ""
           /\ s[k].body[1].text = input.footerContent[1]

C14_Witness ==
  /\ pc = "done"
  /\ input.footerContent = Some("")
  /\ Shells # {}
  /\ \A s \in Shells : \A k \in 1..Len(s) : s[k].part = "footer" => s[k].body = None

----------------------------------------------------------------------------
(* C15: the shell markup consists of the navigation fragment with exactly   *)
(* len(components) links, then exactly one router placeholder, then the     *)
(* footer fragment, in that order; for a specification like the example     *)
(* (two components, footer present) that is 2 links, one placeholder and a  *)
(* non-empty footer.                                                        *)
C15_ShellStructure ==
  \A s \in Shells :
    /\ Len(s) = 3
    /\ s[1].part = "nav"
    /\ Len(s[1].body) = 1
    /\ Len(s[1].body[1].links) = Len(input.components)
    /\ s[2].part = "router-outlet"
    /\ s[3].part = "footer"
    /\ s[3].body = IF FooterSupplied
                   THEN Some([tag |-> "footer", text |-> input.footerContent[1]])
                   ELSE None

C15_Witness ==
  /\ pc = "done"
  /\ input.variant = "direct"
  /\ Len(input.components) = 2
  /\ input.menuType = "horizontal"
  /\ input.footerContent = Some("(c) 2024 MyCompany")
  /\ \E s \in Shells : Len(s[1].body[1].links) = 2 /\ s[3].body # None

----------------------------------------------------------------------------
\* the component's menu display name, when it has a non-empty one
MenuNameGiven(c) == c.menuName # None /\ c.menuName[1] # <<>>

(* C17: the navigation fragment has exactly one link per component, in      *)
(* component input order; each link's label is the component's menu display *)
(* name when one is given and the component name otherwise, and each link's *)
(* target is the lowercased component name.                                 *)
C17_MenuLinks ==
  \A s \in Shells :
    \A k \in 1..Len(s) :
      s[k].part = "nav" =>
        LET links == s[k].body[1].links
        IN /\ Len(links) = Len(input.components)
           /\ \A i \in 1..Len(links) :
                LET c == input.components[i]
                IN /\ links[i].text = (IF MenuNameGiven(c) THEN c.menuName[1] ELSE c.name)
                   /\ Head(links[i].routerLink) = "/"
                   /\ IsLowercased(Tail(links[i].routerLink), c.name)

C17_Witness ==
  /\ pc = "done"
  /\ input.variant = "routing"
  /\ Len(input.components) = 2
  /\ input.components[1].name = <<"A", "b">>
  /\ input.components[1].menuName = Some(<<"B">>)
  /\ input.components[2].menuName = None
  /\ \E s \in Shells :
       /\ s[1].body[1].links[1].text = <<"B">>
       /\ s[1].body[1].links[2].text = <<"a", "b">>

----------------------------------------------------------------------------
\* p is s with its first character uppercased, stated by the table of letters
IsClassForm(p, s) ==
  /\ Len(p) = Len(s)
  /\ s # <<>> =>
       /\ <<s[1], p[1]>> \in {<<"a", "A">>, <<"A", "A">>, <<"b", "B">>, <<"B", "B">>}
       /\ Tail(p) = Tail(s)

(* C16: for every specification with at least one component and every      *)
(* index i, the i-th route entry has path equal to the lowercased name of   *)
(* the i-th component and component identifier equal to that name with its  *)
(* first character uppercased followed by "Component", and the i-th import  *)
(* declaration imports that same identifier; route entries and import       *)
(* declarations both follow component input order.                          *)
C16_RouteEntries ==
  \A t \in RoutingTables :
    /\ Len(t.imports) = Len(input.components)
    /\ \A i \in 1..Len(input.components) :
         LET c == input.components[i]
         IN /\ IsLowercased(t.routes[i].path, c.name)
            /\ t.routes[i].component # None
            /\ LET ident == t.routes[i].component[1]
               IN /\ ident # <<>>
                  /\ ident[Len(ident)] = "Component"
                  /\ IsClassForm(SubSeq(ident, 1, Len(ident) - 1), c.name)
                  /\ t.imports[i].ident = ident

----------------------------------------------------------------------------
\* the labels of the actionable elements 4.4 gives a component
ExpectedButtons(c) ==
  IF c.buttons = None \/ c.buttons[1] = <<>> THEN <<"Submit">> ELSE c.buttons[1]

\* the run failed on the buttons of a component
ThrewOnButtons ==
  \E k \in 1..Len(log) : log[k][1] = "throw" /\ log[k][2] = "buttons"

(* C18: the markup artifact of every component ends, after all field        *)
(* fragments, with one actionable element per declared button label in      *)
(* declared order; when the component declares no buttons (absent or empty  *)
(* list) it has exactly one actionable element labelled "Submit", and       *)
(* generation does not fail.                                                *)
C18_Buttons ==
  /\ ~ThrewOnButtons
  /\ \A i \in 1..Len(input.components) :
       LET c == input.components[i]
           p == componentFile(projectDepth, componentDir(c), "component.html")
       IN (/\ i < idx
           /\ p \in DOMAIN artifacts
           /\ \A j \in 1..Len(input.components) :
                j # i => componentDir(input.components[j]) # componentDir(c)) =>
            [k \in 1..Len(artifacts[p].buttons) |-> artifacts[p].buttons[k].label]
              = ExpectedButtons(c)

----------------------------------------------------------------------------
(* C19: for every single-word input s, the empty string included,           *)
(* classForm(classForm(s)) = classForm(s), pathForm(pathForm(s)) =          *)
(* pathForm(s) and labelForm(labelForm(s)) = labelForm(s), where classForm  *)
(* uppercases only the first character, pathForm lowercases everything and  *)
(* labelForm title-cases each token.                                        *)
C19_Idempotent == out.n = 2 => out.value = out.first

----------------------------------------------------------------------------
\* the target paths of the run's artifact writes, in the order of the writes
WritePaths ==
  LET w == SelectSeq(log, IsWrite) IN [k \in 1..Len(w) |-> w[k][2]]

NoPathWrittenTwice ==
  /\ \A i, j \in 1..Len(WritePaths) : WritePaths[i] = WritePaths[j] => i = j
  /\ Cardinality(DOMAIN artifacts) = Len(WritePaths)

\* the invariant of 3: component names are unique across the specification
DistinctNames ==
  \A i, j \in 1..Len(input.components) :
    input.components[i].name = input.components[j].name => i = j

\* no two components share the directory their files are written to
DistinctDirs ==
  \A i, j \in 1..Len(input.components) :
    componentDir(input.components[i]) = componentDir(input.components[j]) => i = j

(* C20, as the specification states it: in the artifact set of every run    *)
(* (on a specification with unique component names) no two artifacts have   *)
(* the same target path, so no write of one artifact overwrites another     *)
(* artifact of the same run.                                                *)
C20_UniquePathsAnyNames == DistinctNames => NoPathWrittenTwice

(* C20, amended: in every run on a specification whose components have      *)
(* pairwise distinct directory names (the lowercased component name; the    *)
(* name as given in unnamed/part_001) no two artifacts have the same target *)
(* path, so performing the artifact writes in any interleaving leaves the   *)
(* same final content at every path.                                        *)
C20_UniquePaths == DistinctDirs => NoPathWrittenTwice

C20_Witness ==
  /\ pc = "done"
  /\ input.variant = "direct"
  /\ Len(input.components) = 2
  /\ DistinctDirs
  /\ Len(WritePaths) = 9

----------------------------------------------------------------------------
\* the run failed where the default route target is needed
ThrewOnRouting ==
  /\ log # <<>>
  /\ log[Len(log)][1] = "throw"
  /\ log[Len(log)][2] = "routing"

\* every external invocation of the run so far has succeeded
ToolsSucceeded == \A k \in 1..Len(log) : IsExec(log[k]) => log[k][4]

(* C21: for a specification whose component list is empty, every run ends   *)
(* in a fatal error raised when the default route target is needed: no      *)
(* routing table and no shell markup are produced, and the run never        *)
(* reaches Done.                                                            *)
C21_EmptyListFatal ==
  input.components = <<>> =>
    /\ pc # "done"
    /\ "Done" \notin {Phases[k] : k \in 1..Len(Phases)}
    /\ RoutingTables = {}
    /\ Shells = {}
    /\ (pc = "aborted" /\ ToolsSucceeded) => ThrewOnRouting

----------------------------------------------------------------------------
\* components i and j, i before j, have the same derived path form
SamePathForm(i, j) ==
  /\ i < j
  /\ toLowerCase(input.components[i].name) = toLowerCase(input.components[j].name)

\* the markup the flow renders for a component
MarkupOf(c) ==
  IF input.variant = "routing" THEN generateComponentHTML(c)
  ELSE generateComponentHTMLContent(c, input.useBootstrap, input.columnLayout)

(* C22, as the specification states it: when two components have the same  *)
(* derived path form, the later component's routing entry overwrites the    *)
(* earlier one, so the routing table holds a single entry for that path.    *)
C22_SingleEntry ==
  \A t \in RoutingTables :
    \A i, j \in 1..Len(input.components) :
      t.routes[i].path = t.routes[j].path => i = j

(* C22, amended: when two components have the same derived path form,       *)
(* generation does not fail because of it and the routing table keeps one   *)
(* entry per component, in input order: it holds two entries for that path, *)
(* the earlier component's first, and len(components) + 2 entries in all.   *)
(* What the later component overwrites is the earlier component's artifact  *)
(* files, which have the same target paths.                                 *)
C22_CollisionTolerated ==
  \A i, j \in 1..Len(input.components) :
    SamePathForm(i, j) =>
      /\ \A t \in RoutingTables :
           /\ Len(t.routes) = Len(input.components) + 2
           /\ t.routes[i].path = toLowerCase(input.components[i].name)
           /\ t.routes[j].path = t.routes[i].path
           /\ SubSeq(t.routes[i].component[1], 2, Len(input.components[i].name))
                = Tail(input.components[i].name)
      /\ (pc = "aborted" /\ ToolsSucceeded) => log[Len(log)][1] = "throw"
      /\ (/\ idx > j
          /\ input.variant # "morph"
          /\ \A k \in 1..Len(input.components) : (SamePathForm(j, k) => idx <= k)) =>
           LET p == componentFile(projectDepth,
                                  componentDir(input.components[j]), "component.html")
           IN /\ p \in DOMAIN artifacts
              /\ artifacts[p] = MarkupOf(input.components[j])

C22_Witness ==
  /\ pc = "done"
  /\ input.variant = "routing"
  /\ Len(input.components) = 2
  /\ input.components[1].name = <<"A", "b">>
  /\ input.components[2].name = <<"a", "b">>
  /\ \E t \in RoutingTables :
       /\ Len(t.routes) = 4
       /\ t.routes[1].path = <<"a", "b">>
       /\ t.routes[2].path = <<"a", "b">>

----------------------------------------------------------------------------
\* the component markup the run has written
ComponentMarkups ==
  {artifacts[p] : p \in {q \in DOMAIN artifacts :
                           q.dir # <<>> /\ q.ext = "component.html"}}

\* w is the class 4.4 wraps a field fragment in
IsColumnClass(w) ==
  /\ Len(w) >= 2
  /\ IF input.useBootstrap
     THEN w[1] = "col-md-" /\ w[2] * input.columnLayout = 12 /\ w[3] = 0
     ELSE w[1] = "custom-col-" /\ w[2] = input.columnLayout

(* C23: for every column count in {2, 3, 4}: when the styled grid is        *)
(* requested, each field fragment of the component markup is wrapped in a   *)
(* column class whose size is the integer 12 / columnCount (6, 4, 3); when  *)
(* it is not requested, each field fragment is wrapped in a custom grid     *)
(* class that carries the column count.                                     *)
C23_ColumnClass ==
  \A m \in ComponentMarkups :
    \A i \in 1..Len(m.fields) : IsColumnClass(m.fields[i].wrapper)

----------------------------------------------------------------------------
\* a component module is at path p: written, or held by the ts-morph project
\* until project.saveSync()
HasModule(p) ==
  p \in DOMAIN artifacts \/ \E k \in 1..Len(project) : project[k][1] = p

ModuleAt(p) ==
  IF p \in DOMAIN artifacts THEN artifacts[p]
  ELSE project[CHOOSE k \in 1..Len(project) : project[k][1] = p][2]

\* no two components have the same derived path form
DistinctPathForms ==
  \A i, j \in 1..Len(input.components) :
    toLowerCase(input.components[i].name) = toLowerCase(input.components[j].name)
      => i = j

\* every routing table of the run names, for every component, the class its
\* module declares and the path its module is written to
ClassNamesAgree ==
  \A t \in RoutingTables :
    \A i \in 1..Len(input.components) :
      LET p == componentFile(projectDepth, componentDir(input.components[i]),
                             "component.ts")
      IN /\ t.imports[i].ident = t.routes[i].component[1]
         /\ t.imports[i].from = <<p.dir, p.file>>
         /\ HasModule(p) => ModuleAt(p).className = t.routes[i].component[1]
         /\ pc = "done" => p \in DOMAIN artifacts

(* C24, as stated: within any one generation run, for every component the   *)
(* class identifier of the routing table's route entry and import           *)
(* declaration is the class name declared by that component's generated     *)
(* module, and the import's module path is the path the module is written   *)
(* to, for every component name.                                            *)
C24_ClassNamesAgreeAnyNames == pc = "done" => ClassNamesAgree

(* C24, amended: the same, for every specification whose components have    *)
(* pairwise distinct derived path forms, names that start with a lowercase  *)
(* letter included.                                                         *)
C24_ClassNamesAgree == DistinctPathForms => ClassNamesAgree

C24_Witness ==
  /\ pc = "done"
  /\ input.variant = "direct"
  /\ Len(input.components) = 2
  /\ input.components[2].name = <<"b">>
  /\ DistinctPathForms
  /\ \E t \in RoutingTables : t.routes[2].component = Some(<<"b", "Component">>)
  /\ ModuleAt(componentFile(1, <<"b">>, "component.ts")).className = <<"b", "Component">>

====
